---- MODULE Spec2Model ----
(***************************************************************************)
(* Model of the local RAG service: the chunker of                          *)
(* app/services/document_service.py, the chunk store adapter of            *)
(* app/services/vector_service.py and the request handlers of              *)
(* app/api/routes.py.                                                      *)
(*                                                                         *)
(* Strings are sequences of one-character strings, so that strip, split,   *)
(* slicing and concatenation are computed as Python computes them.         *)
(***************************************************************************)
EXTENDS Integers, Sequences, FiniteSets, TLC

(***************************************************************************)
(* Bounds of the model.                                                    *)
(***************************************************************************)
\* longest text handed to split_into_chunks in SpecSplit
MaxTextLen == 8
\* settings.chunk_size ranges over 3..MaxChunkSize
MaxChunkSize == 4
\* settings.chunk_overlap ranges over 0..MaxOverlap
MaxOverlap == 3

(***************************************************************************)
(* Python string primitives.                                               *)
(***************************************************************************)
NL == "\n"
SP == " "
SEP == <<NL, NL>>

\* the characters str.strip() and str.split() treat as whitespace
Whitespace == {SP, NL, "\t", "\r"}

Max(a, b) == IF a >= b THEN a ELSE b
Min(a, b) == IF a <= b THEN a ELSE b

RECURSIVE LStrip(_)
LStrip(s) ==
    IF s # <<>> /\ Head(s) \in Whitespace THEN LStrip(Tail(s)) ELSE s

RECURSIVE RStrip(_)
RStrip(s) ==
    IF s # <<>> /\ s[Len(s)] \in Whitespace
    THEN RStrip(SubSeq(s, 1, Len(s) - 1))
    ELSE s

\* the slip of stripping spaces only, as str.strip(" ")
StripSpaces(s) ==
    LET kept == {i \in 1..Len(s) : s[i] # SP}
    IN  IF kept = {} THEN <<>>
        ELSE SubSeq(s, CHOOSE i \in kept : \A j \in kept : i <= j,
                       CHOOSE i \in kept : \A j \in kept : j <= i)

\* str.strip()
Strip(s) == RStrip(LStrip(s))

\* s[start:] for a possibly negative start, as Python slices
SliceFrom(s, start) ==
    LET from == IF start < 0 THEN Max(Len(s) + start, 0) ELSE Min(start, Len(s))
    IN  SubSeq(s, from + 1, Len(s))

\* position of the first "\n\n" in s, 0 when there is none
FirstSep(s) ==
    LET hits == {i \in 1..(Len(s) - 1) : s[i] = NL /\ s[i + 1] = NL}
    IN  IF hits = {} THEN 0 ELSE CHOOSE i \in hits : \A j \in hits : i <= j

\* text.split("\n\n")
RECURSIVE SplitParagraphs(_)
SplitParagraphs(s) ==
    LET k == FirstSep(s)
    IN  IF k = 0
        THEN <<s>>
        ELSE <<SubSeq(s, 1, k - 1)>> \o SplitParagraphs(SubSeq(s, k + 2, Len(s)))

\* text.split(): the maximal whitespace-free runs of s, in order
RECURSIVE SplitWordsFrom(_, _)
SplitWordsFrom(s, word) ==
    IF s = <<>>
    THEN IF word = <<>> THEN <<>> ELSE <<word>>
    ELSE IF Head(s) \in Whitespace
         THEN (IF word = <<>> THEN <<>> ELSE <<word>>) \o SplitWordsFrom(Tail(s), <<>>)
         ELSE SplitWordsFrom(Tail(s), Append(word, Head(s)))

SplitWords(s) == SplitWordsFrom(s, <<>>)

\* "\n\n".join(parts)
RECURSIVE JoinBlankLine(_)
JoinBlankLine(parts) ==
    IF parts = <<>> THEN <<>>
    ELSE IF Len(parts) = 1 THEN parts[1]
    ELSE parts[1] \o SEP \o JoinBlankLine(Tail(parts))

\* str(n) for n >= 0
Digit(d) == <<"0", "1", "2", "3", "4", "5", "6", "7", "8", "9">>[d + 1]

RECURSIVE IntToStr(_)
IntToStr(n) ==
    IF n < 10 THEN <<Digit(n)>> ELSE IntToStr(n \div 10) \o <<Digit(n % 10)>>

(***************************************************************************)
(* State.                                                                  *)
(***************************************************************************)
VARIABLES
    chunk_size,      \* DocumentService.chunk_size
    chunk_overlap,   \* DocumentService.chunk_overlap
    sp_pc,           \* position in split_into_chunks: "call", "loop", "ret"
    sp_text,         \* its argument text
    sp_source,       \* its argument source
    sp_metadata,     \* its argument metadata
    sp_paragraphs,   \* the paragraphs the for loop has not visited yet
    sp,              \* its locals: current_chunk, chunk_index, chunks, and
                     \* what the last loop iteration did
    collection,      \* VectorService.collection: the entries of the index
    files,           \* the names of the files in settings.documents_directory
    ollama_up,       \* whether the Ollama server answers client.list()
    req,             \* the requests being served, one record per slot
    running,         \* the request whose handler holds the event loop, 0 if none
    adapter          \* the last call made to VectorService directly, with its
                     \* arguments, the index before it and what it returned

spvars == <<sp_pc, sp_text, sp_source, sp_metadata, sp_paragraphs, sp>>
cfgvars == <<chunk_size, chunk_overlap>>
svcvars == <<collection, files, ollama_up, req, running>>
advars == <<adapter>>

(***************************************************************************)
(* The chunker: DocumentService.split_into_chunks.                         *)
(***************************************************************************)
DocumentChunk(content, source, chunk_index, metadata) ==
    [content |-> content, source |-> source,
     chunk_index |-> chunk_index, metadata |-> metadata]

\* the slip of carrying the whole buffer over
get_overlap_text_uncapped(text) == text \o SEP

get_overlap_text(text) ==
    IF Len(text) <= chunk_overlap
    THEN text \o SEP
    ELSE SliceFrom(text, -chunk_overlap) \o SEP

\* the for loop of _split_long_text and its final flush
RECURSIVE PackWords(_, _, _, _, _, _)
PackWords(words, current_chunk, chunks, chunk_index, source, metadata) ==
    IF words = <<>>
    THEN IF Strip(current_chunk) # <<>>
         THEN Append(chunks, DocumentChunk(current_chunk, source, chunk_index, metadata))
         ELSE chunks
    ELSE LET word == Head(words)
         IN  IF Len(current_chunk) + Len(word) + 1 <= chunk_size
             THEN PackWords(Tail(words),
                            (IF current_chunk # <<>> THEN current_chunk \o <<SP>> ELSE <<>>) \o word,
                            chunks, chunk_index, source, metadata)
             ELSE IF current_chunk # <<>>
                  THEN PackWords(Tail(words), word,
                                 Append(chunks, DocumentChunk(current_chunk, source, chunk_index, metadata)),
                                 chunk_index + 1, source, metadata)
                  ELSE PackWords(Tail(words), word, chunks, chunk_index, source, metadata)

\* the slip of emitting the paragraph as one chunk
split_long_text_whole(text, source, start_index, metadata) ==
    <<DocumentChunk(text, source, start_index, metadata)>>

split_long_text(text, source, start_index, metadata) ==
    PackWords(SplitWords(text), <<>>, <<>>, start_index, source, metadata)

\* the locals of split_into_chunks before the loop; rule, prev, para and
\* overlap_text record what the last iteration did, by[i] the rule that
\* emitted chunks[i]
LoopStart ==
    [current_chunk |-> <<>>, chunk_index |-> 0, chunks |-> <<>>,
     rule |-> "none", prev |-> <<>>, para |-> <<>>, overlap_text |-> <<>>,
     by |-> <<>>]

\* the slip of counting the fallback as one chunk
AfterLongSplitOne(chunk_index, para_chunks) == chunk_index + 1

\* chunk_index after the word-level fallback emitted para_chunks
AfterLongSplit(chunk_index, para_chunks) == chunk_index + Len(para_chunks)

\* one iteration of the loop over paragraphs
LoopBody(st, raw, source, metadata) ==
    LET para == Strip(raw)
    IN  IF para = <<>>
        THEN [st EXCEPT !.rule = "skip", !.prev = st.current_chunk, !.para = para,
                        !.overlap_text = <<>>]
        ELSE IF Len(st.current_chunk) + Len(para) + 2 <= chunk_size
        THEN [st EXCEPT !.current_chunk =
                            (IF st.current_chunk # <<>> THEN st.current_chunk \o SEP ELSE <<>>) \o para,
                        !.rule = "accumulate", !.prev = st.current_chunk, !.para = para,
                        !.overlap_text = <<>>]
        ELSE IF st.current_chunk # <<>>
        THEN LET overlap_text == get_overlap_text(st.current_chunk)
             IN  [current_chunk |-> IF overlap_text # <<>> THEN overlap_text \o para ELSE para,
                  chunk_index |-> st.chunk_index + 1,
                  chunks |-> Append(st.chunks,
                                    DocumentChunk(st.current_chunk, source, st.chunk_index, metadata)),
                  rule |-> "flush", prev |-> st.current_chunk, para |-> para,
                  overlap_text |-> overlap_text, by |-> Append(st.by, "flush")]
        ELSE LET para_chunks == split_long_text(para, source, st.chunk_index, metadata)
             IN  [current_chunk |-> <<>>,
                  chunk_index |-> AfterLongSplit(st.chunk_index, para_chunks),
                  chunks |-> st.chunks \o para_chunks,
                  rule |-> "long", prev |-> st.current_chunk, para |-> para,
                  overlap_text |-> <<>>,
                  by |-> st.by \o [i \in 1..Len(para_chunks) |-> "long"]]

\* the slip of returning without the flush after the loop
FinalFlushForgotten(st, source, metadata) == st.chunks

\* the flush after the loop
FinalFlush(st, source, metadata) ==
    IF Strip(st.current_chunk) # <<>>
    THEN Append(st.chunks, DocumentChunk(st.current_chunk, source, st.chunk_index, metadata))
    ELSE st.chunks

RECURSIVE Loop(_, _, _, _)
Loop(st, paragraphs, source, metadata) ==
    IF paragraphs = <<>>
    THEN st
    ELSE Loop(LoopBody(st, Head(paragraphs), source, metadata), Tail(paragraphs), source, metadata)

\* split_into_chunks as a function of its arguments
split_into_chunks(text, source, metadata) ==
    IF Strip(text) = <<>>
    THEN <<>>
    ELSE FinalFlush(Loop(LoopStart, SplitParagraphs(text), source, metadata), source, metadata)

(***************************************************************************)
(* Python dicts: a dict is the set of its <<key, value>> items.            *)
(***************************************************************************)
DictKeys(d) == {p[1] : p \in d}
DictGet(d, k, default) ==
    IF k \in DictKeys(d) THEN (CHOOSE p \in d : p[1] = k)[2] ELSE default
\* {**base, **over}
DictMerge(base, over) == {p \in base : p[1] \notin DictKeys(over)} \cup over

(***************************************************************************)
(* The chunk store adapter: VectorService.                                 *)
(***************************************************************************)
\* f"{chunk.source}_{chunk.chunk_index}"
\* the slip of building the id without the separator
DocId_unseparated(chunk) == chunk.source \o IntToStr(chunk.chunk_index)

DocId(chunk) == chunk.source \o <<"_">> \o IntToStr(chunk.chunk_index)

\* the (id, document, metadata) that add_chunks builds for a chunk
Entry(chunk) ==
    [id |-> DocId(chunk),
     document |-> chunk.content,
     metadata |-> DictMerge({<<"source", chunk.source>>,
                             <<"chunk_index", chunk.chunk_index>>},
                            chunk.metadata)]

EntrySource(e) == DictGet(e.metadata, "source", <<>>)

\* the slip of replacing the contents of the index by the new entries
CollectionAdd_replaces(coll, entries) == entries

\* collection.add: an id the collection already holds keeps its entry
CollectionAdd(coll, entries) ==
    coll \cup {e \in entries : \A x \in coll : x.id # e.id}

\* the slip of catching the failure and reporting nothing added
add_chunks_swallows(coll, chunks, embed_ok, store_ok) ==
    IF chunks = <<>>
    THEN [raised |-> FALSE, collection |-> coll, count |-> 0, calls |-> <<>>]
    ELSE IF ~embed_ok
    THEN [raised |-> FALSE, collection |-> coll, count |-> 0, calls |-> <<"encode">>]
    ELSE IF ~store_ok
    THEN [raised |-> FALSE, collection |-> coll, count |-> 0, calls |-> <<"encode", "add">>]
    ELSE [raised |-> FALSE,
          collection |-> CollectionAdd(coll, {Entry(chunks[i]) : i \in 1..Len(chunks)}),
          count |-> Len(chunks),
          calls |-> <<"encode", "add">>]

\* add_chunks; embed_ok and store_ok say whether embedding_model.encode and
\* collection.add return or raise; calls are the calls made to the embedding
\* model and to the index, in order
add_chunks(coll, chunks, embed_ok, store_ok) ==
    IF chunks = <<>>
    THEN [raised |-> FALSE, collection |-> coll, count |-> 0, calls |-> <<>>]
    ELSE IF ~embed_ok
    THEN [raised |-> TRUE, collection |-> coll, count |-> 0, calls |-> <<"encode">>]
    ELSE IF ~store_ok
    THEN [raised |-> TRUE, collection |-> coll, count |-> 0, calls |-> <<"encode", "add">>]
    ELSE [raised |-> FALSE,
          collection |-> CollectionAdd(coll, {Entry(chunks[i]) : i \in 1..Len(chunks)}),
          count |-> Len(chunks),
          calls |-> <<"encode", "add">>]

\* the slip of returning before the delete
delete_by_source_keeps(coll, source, store_ok) ==
    [raised |-> ~store_ok, collection |-> coll, count |-> 0]

\* the slip of deleting only the first id found
delete_by_source_first(coll, source, store_ok) ==
    LET ids == {e.id : e \in {x \in coll : EntrySource(x) = source}}
    IN  IF ~store_ok
        THEN [raised |-> TRUE, collection |-> coll, count |-> 0]
        ELSE IF ids # {}
        THEN [raised |-> FALSE,
              collection |-> {e \in coll : e.id # DocId([source |-> source, chunk_index |-> 0])},
              count |-> 1]
        ELSE [raised |-> FALSE, collection |-> coll, count |-> 0]

\* the slip of deleting without the where filter
delete_by_source_unfiltered(coll, source, store_ok) ==
    LET ids == {e.id : e \in {x \in coll : EntrySource(x) = source}}
    IN  IF ~store_ok
        THEN [raised |-> TRUE, collection |-> coll, count |-> 0]
        ELSE IF ids # {}
        THEN [raised |-> FALSE, collection |-> {}, count |-> Cardinality(ids)]
        ELSE [raised |-> FALSE, collection |-> coll, count |-> 0]

\* delete_by_source; store_ok says whether collection.get and
\* collection.delete return or raise
delete_by_source(coll, source, store_ok) ==
    LET ids == {e.id : e \in {x \in coll : EntrySource(x) = source}}
    IN  IF ~store_ok
        THEN [raised |-> TRUE, collection |-> coll, count |-> 0]
        ELSE IF ids # {}
        THEN [raised |-> FALSE,
              collection |-> {e \in coll : e.id \notin ids},
              count |-> Cardinality(ids)]
        ELSE [raised |-> FALSE, collection |-> coll, count |-> 0]

get_document_count(coll) == Cardinality(coll)

\* fixed-point numbers: the integer n stands for n / ScoreUnit
ScoreUnit == 2
One == ScoreUnit
\* the cosine distances the index can return: 0 to 2
Distances == 0..(2 * ScoreUnit)

\* collection.query(n_results=n) on a ranking of the collection, nearest
\* first: the n nearest entries with their distances
CollectionQuery(ranking, n_results) == SubSeq(ranking, 1, Min(n_results, Len(ranking)))

\* 1 - results['distances'][0][i]
Score(distance) == One - distance

\* the dict search builds for one hit
SearchResult(hit) ==
    [content |-> hit.entry.document,
     source |-> DictGet(hit.entry.metadata, "source", <<"u", "n", "k", "n", "o", "w", "n">>),
     score |-> Score(hit.distance)]

\* the slip of asking the index for top_k neighbours whatever it holds
search_unclamped(coll, query, top_k, ranking, embed_ok, store_ok) ==
    IF Cardinality(coll) = 0
    THEN [raised |-> FALSE, results |-> <<>>, calls |-> <<"count">>]
    ELSE IF ~embed_ok
    THEN [raised |-> TRUE, results |-> <<>>, calls |-> <<"count", "encode">>]
    ELSE IF ~store_ok \/ top_k > Cardinality(coll)
    THEN [raised |-> TRUE, results |-> <<>>,
          calls |-> <<"count", "encode", "query">>]
    ELSE [raised |-> FALSE,
          results |-> [i \in 1..top_k |-> SearchResult(ranking[i])],
          calls |-> <<"count", "encode", "query">>]

\* the slip of embedding the query before looking at the index
search_embeds_first(coll, query, top_k, ranking, embed_ok, store_ok) ==
    IF ~embed_ok
    THEN [raised |-> TRUE, results |-> <<>>, calls |-> <<"encode">>]
    ELSE IF Cardinality(coll) = 0
    THEN [raised |-> FALSE, results |-> <<>>, calls |-> <<"encode", "count">>]
    ELSE IF ~store_ok
    THEN [raised |-> TRUE, results |-> <<>>,
          calls |-> <<"encode", "count", "count", "query">>]
    ELSE [raised |-> FALSE,
          results |-> [i \in 1..Len(CollectionQuery(ranking, Min(top_k, Cardinality(coll)))) |->
                          SearchResult(ranking[i])],
          calls |-> <<"encode", "count", "count", "query">>]

\* search; ranking is the collection as the index ranks it for the query,
\* nearest first, embed_ok and store_ok say whether embedding_model.encode
\* and collection.query return or raise; calls are the calls made to the
\* index and to the embedding model, in order
search(coll, query, top_k, ranking, embed_ok, store_ok) ==
    IF Cardinality(coll) = 0
    THEN [raised |-> FALSE, results |-> <<>>, calls |-> <<"count">>]
    ELSE IF ~embed_ok
    THEN [raised |-> TRUE, results |-> <<>>, calls |-> <<"count", "encode">>]
    ELSE IF ~store_ok
    THEN [raised |-> TRUE, results |-> <<>>,
          calls |-> <<"count", "encode", "count", "query">>]
    ELSE LET hits == CollectionQuery(ranking, Min(top_k, Cardinality(coll)))
         IN  [raised |-> FALSE,
              results |-> [i \in 1..Len(hits) |-> SearchResult(hits[i])],
              calls |-> <<"count", "encode", "count", "query">>]

\* get_sources; store_ok says whether collection.count and collection.get
\* return or raise
get_sources(coll, store_ok) ==
    IF ~store_ok
    THEN [raised |-> TRUE, sources |-> {}]
    ELSE IF Cardinality(coll) = 0
    THEN [raised |-> FALSE, sources |-> {}]
    ELSE [raised |-> FALSE, sources |-> {DictGet(e.metadata, "source", <<>>) : e \in coll}]

\* no call made yet
NoCall ==
    [fn |-> "none", before |-> {}, chunks |-> <<>>, source |-> <<>>, top_k |-> 0,
     embed_ok |-> TRUE, store_ok |-> TRUE, raised |-> FALSE, count |-> 0,
     results |-> <<>>, sources |-> {}, calls |-> <<>>]

(***************************************************************************)
(* DocumentService.validate_file and extract_text.                         *)
(***************************************************************************)
max_file_size_mb == 10
max_file_size == max_file_size_mb * 1024 * 1024
allowed_extensions ==
    {<<".", "p", "d", "f">>, <<".", "t", "x", "t">>, <<".", "m", "d">>,
     <<".", "d", "o", "c", "x">>}

\* str.lower() on the letters file names are built from
LowerChar(c) ==
    CASE c = "M" -> "m"
      [] c = "D" -> "d"
      [] c = "P" -> "p"
      [] c = "F" -> "f"
      [] c = "T" -> "t"
      [] c = "X" -> "x"
      [] OTHER -> c
Lower(s) == [i \in 1..Len(s) |-> LowerChar(s[i])]

\* Path(filename).suffix: from the last dot on, empty when the name has no
\* dot, starts with its only dot or ends with a dot
Suffix(name) ==
    LET dots == {i \in 1..Len(name) : name[i] = "."}
        last == CHOOSE i \in dots : \A j \in dots : j <= i
    IN  IF dots = {} THEN <<>>
        ELSE IF last = 1 \/ last = Len(name) THEN <<>>
        ELSE SubSeq(name, last, Len(name))

\* the slip of rejecting a file of exactly the maximum size
validate_file_below(filename, file_size) ==
    LET ext == Lower(Suffix(filename))
    IN  IF ext \notin allowed_extensions
        THEN [ok |-> FALSE, error |-> "unsupported_type"]
        ELSE IF file_size >= max_file_size
        THEN [ok |-> FALSE, error |-> "too_large"]
        ELSE [ok |-> TRUE, error |-> ""]

validate_file(filename, file_size) ==
    LET ext == Lower(Suffix(filename))
    IN  IF ext \notin allowed_extensions
        THEN [ok |-> FALSE, error |-> "unsupported_type"]
        ELSE IF file_size > max_file_size
        THEN [ok |-> FALSE, error |-> "too_large"]
        ELSE [ok |-> TRUE, error |-> ""]

\* extract_text on the saved file: text files are read as they are (utf-8,
\* then latin-1), PDF and DOCX parsing raises ValueError on a corrupt file
extract_text(filename, content) ==
    LET ext == Lower(Suffix(filename))
    IN  IF ext \in {<<".", "t", "x", "t">>, <<".", "m", "d">>}
        THEN [raised |-> FALSE, text |-> content.text]
        ELSE IF ext \in {<<".", "p", "d", "f">>, <<".", "d", "o", "c", "x">>}
        THEN IF content.corrupt
             THEN [raised |-> TRUE, text |-> <<>>]
             ELSE [raised |-> FALSE, text |-> content.text]
        ELSE [raised |-> TRUE, text |-> <<>>]

(***************************************************************************)
(* The request handlers of app/api/routes.py.                              *)
(*                                                                         *)
(* The handlers are coroutines on one event loop: a handler runs until it  *)
(* awaits or returns, and no other handler runs in between.                *)
(***************************************************************************)
\* the number of requests in flight at once
NumReq == 2
Reqs == 1..NumReq

NoContent == [size |-> 0, text |-> <<>>, corrupt |-> FALSE]
IdleReq ==
    [op |-> "none", pc |-> "idle", filename |-> <<>>, content |-> NoContent,
     question |-> <<>>, top_k |-> 0, text |-> <<>>, status |-> 0, detail |-> "",
     calls |-> <<>>, had_chunks |-> 0, had_file |-> FALSE,
     chunks_deleted |-> 0, chunks_created |-> 0, n_sources |-> 0,
     faults |-> {}, documents |-> {}, total_count |-> 0,
     results |-> <<>>, context |-> <<>>, sources |-> <<>>, before |-> {}]

\* the slip of suspending between the delete and the insert of an upload
AwaitPointsAfterDelete == {"read", "deleted"}

\* the positions at which a handler awaits: upload_document awaits
\* file.read(), delete_document and ask_question await nothing
AwaitPoints == {"read"}

CanRun(r) == running \in {0, r}
Holder(r, pc) == IF pc \in AwaitPoints THEN 0 ELSE r

ChunksOf(coll, source) == {e \in coll : EntrySource(e) = source}

\* the external call a request was served with failing, if it is set to fail
Fault(ok, name) == IF ok THEN {} ELSE {name}

Finished(rec, status, detail) ==
    [rec EXCEPT !.pc = "done", !.status = status, !.detail = detail]

\* upload_document up to its await of file.read() (lines 163-167)
UploadCall(r, filename, content) ==
    /\ running = 0
    /\ req[r].pc = "idle"
    /\ req' = [req EXCEPT ![r] = [IdleReq EXCEPT !.op = "upload", !.pc = "read",
                                                 !.filename = filename,
                                                 !.content = content]]
    /\ running' = Holder(r, "read")
    /\ UNCHANGED <<collection, files, ollama_up, cfgvars, spvars, advars>>

\* lines 168-191: validation, the write of the file, the extraction
UploadSave(r) ==
    LET rec == [req[r] EXCEPT !.had_chunks = Cardinality(ChunksOf(collection, req[r].filename)),
                              !.had_file = req[r].filename \in files,
                              !.before = collection]
        valid == validate_file(rec.filename, rec.content.size)
        extracted == extract_text(rec.filename, rec.content)
    IN  /\ CanRun(r)
        /\ req[r].pc = "read"
        /\ IF ~valid.ok
           THEN /\ req' = [req EXCEPT ![r] = Finished(rec, 400, valid.error)]
                /\ files' = files
           ELSE /\ files' = files \cup {rec.filename}
                /\ IF extracted.raised
                   THEN req' = [req EXCEPT ![r] = Finished(rec, 500, "internal")]
                   ELSE IF Strip(extracted.text) = <<>>
                   THEN req' = [req EXCEPT ![r] = Finished(rec, 400, "empty_text")]
                   ELSE req' = [req EXCEPT ![r] = [rec EXCEPT !.pc = "extracted",
                                                              !.text = extracted.text]]
        /\ running' = Holder(r, req'[r].pc)
        /\ UNCHANGED <<collection, ollama_up, cfgvars, spvars, advars>>

\* line 194: vector_service.delete_by_source(file.filename)
UploadDelete(r) ==
    /\ CanRun(r)
    /\ req[r].pc = "extracted"
    /\ \E store_ok \in BOOLEAN :
         LET res == delete_by_source(collection, req[r].filename, store_ok)
             rec == [req[r] EXCEPT !.faults = @ \cup Fault(store_ok, "delete")]
         IN  /\ collection' = res.collection
             /\ IF res.raised
                THEN req' = [req EXCEPT ![r] = Finished(rec, 500, "internal")]
                ELSE req' = [req EXCEPT ![r] = [rec EXCEPT !.pc = "deleted",
                                                           !.chunks_deleted = res.count]]
    /\ running' = Holder(r, req'[r].pc)
    /\ UNCHANGED <<files, ollama_up, cfgvars, spvars, advars>>

\* lines 197-208: split_into_chunks, add_chunks, the response
UploadAdd(r) ==
    /\ CanRun(r)
    /\ req[r].pc = "deleted"
    /\ \E embed_ok \in BOOLEAN, store_ok \in BOOLEAN :
         LET chunks == split_into_chunks(req[r].text, req[r].filename, {})
             res == add_chunks(collection, chunks, embed_ok, store_ok)
             rec == [req[r] EXCEPT !.faults = @ \cup Fault(embed_ok, "encode")
                                                \cup Fault(store_ok, "add")]
         IN  /\ collection' = res.collection
             /\ IF res.raised
                THEN req' = [req EXCEPT ![r] = Finished(rec, 500, "internal")]
                ELSE req' = [req EXCEPT ![r] =
                                Finished([rec EXCEPT !.chunks_created = res.count],
                                         200, "uploaded")]
    /\ running' = Holder(r, req'[r].pc)
    /\ UNCHANGED <<files, ollama_up, cfgvars, spvars, advars>>

\* file_path.exists()
Exists(fs, filename) == filename \in fs

\* delete_document as a function of the index and the directory
delete_document(coll, fs, filename, store_ok) ==
    LET res == delete_by_source(coll, filename, store_ok)
        fs_after == IF Exists(fs, filename) THEN fs \ {filename} ELSE fs
    IN  IF res.raised
        THEN [collection |-> res.collection, files |-> fs, status |-> 500,
              detail |-> "internal", chunks_deleted |-> 0]
        ELSE IF res.count > 0 \/ Exists(fs_after, filename)
        THEN [collection |-> res.collection, files |-> fs_after, status |-> 200,
              detail |-> "deleted", chunks_deleted |-> res.count]
        ELSE [collection |-> res.collection, files |-> fs_after, status |-> 404,
              detail |-> "not_found", chunks_deleted |-> 0]

\* delete_document (lines 262-283): it awaits nothing
DeleteCall(r, filename) ==
    /\ running = 0
    /\ req[r].pc = "idle"
    /\ \E store_ok \in BOOLEAN :
         LET res == delete_document(collection, files, filename, store_ok)
         IN  /\ collection' = res.collection
             /\ files' = res.files
             /\ req' = [req EXCEPT ![r] =
                           Finished([IdleReq EXCEPT
                                        !.op = "delete", !.filename = filename,
                                        !.had_chunks = Cardinality(ChunksOf(collection, filename)),
                                        !.had_file = filename \in files,
                                        !.before = collection,
                                        !.faults = Fault(store_ok, "delete"),
                                        !.chunks_deleted = res.chunks_deleted],
                                    res.status, res.detail)]
    /\ running' = r
    /\ UNCHANGED <<ollama_up, cfgvars, spvars, advars>>

\* AskRequest: question of 1..1000 characters, top_k in 1..10
AskRequestValid(question, top_k) ==
    /\ Len(question) >= 1
    /\ Len(question) <= 1000
    /\ top_k >= 1
    /\ top_k <= 10

\* the slip of looking at the index before the LLM
ask_question_index_first(question, top_k, llm_ok, coll, ranking, embed_ok, store_ok, gen_ok) ==
    IF Strip(question) = <<>>
    THEN [status |-> 400, detail |-> "empty_question", calls |-> <<>>, n_sources |-> 0]
    ELSE IF get_document_count(coll) = 0
    THEN [status |-> 400, detail |-> "no_documents",
          calls |-> <<"get_document_count">>, n_sources |-> 0]
    ELSE IF ~llm_ok
    THEN [status |-> 503, detail |-> "llm_unavailable",
          calls |-> <<"get_document_count", "check_connection">>, n_sources |-> 0]
    ELSE [status |-> 200, detail |-> "answered",
          calls |-> <<"get_document_count", "check_connection", "search", "generate_response">>,
          n_sources |-> Len(search(coll, Strip(question), top_k, ranking, TRUE, TRUE).results)]

\* the slip of answering an empty index as the LLM being unavailable
ask_question_unavailable(question, top_k, llm_ok, coll, ranking, embed_ok, store_ok, gen_ok) ==
    IF Strip(question) = <<>>
    THEN [status |-> 400, detail |-> "empty_question", calls |-> <<>>, n_sources |-> 0]
    ELSE IF ~llm_ok
    THEN [status |-> 503, detail |-> "llm_unavailable",
          calls |-> <<"check_connection">>, n_sources |-> 0]
    ELSE IF get_document_count(coll) = 0
    THEN [status |-> 503, detail |-> "no_documents",
          calls |-> <<"check_connection", "get_document_count">>, n_sources |-> 0]
    ELSE [status |-> 200, detail |-> "answered",
          calls |-> <<"check_connection", "get_document_count", "search",
                      "generate_response">>,
          n_sources |-> Len(search(coll, Strip(question), top_k, ranking, TRUE, TRUE).results)]

\* the length of the preview of a source in the response
preview_length == 200
Ellipsis == <<".", ".", ".">>

\* result['content'][:200] + "..." if len(result['content']) > 200 else
\* result['content']
Preview(content) ==
    IF Len(content) > preview_length
    THEN SubSeq(content, 1, preview_length) \o Ellipsis
    ELSE content

\* round(x, 3) of the fixed-point number x, in thousandths: to the nearest,
\* a tie to the even one
Round3(x) ==
    LET q == (x * 1000) \div ScoreUnit
        rest == (x * 1000) % ScoreUnit
    IN  IF 2 * rest > ScoreUnit \/ (2 * rest = ScoreUnit /\ q % 2 = 1)
        THEN q + 1
        ELSE q

\* SourceDocument(content=..., source=..., score=round(result['score'], 3))
SourceDocument(result) ==
    [content |-> Preview(result.content), source |-> result.source,
     score |-> Round3(result.score)]

\* f"[{result['source']}]: {result['content']}"
ContextPart(result) == <<"[">> \o result.source \o <<"]", ":", " ">> \o result.content

\* "Bağlam bulunamadı.", its two non-ASCII letters written g and i
NoContext ==
    <<"B", "a", "g", "l", "a", "m", " ", "b", "u", "l", "u", "n", "a", "m", "a", "d", "i", ".">>

\* "\n\n".join(context_parts) if context_parts else "Bağlam bulunamadı."
BuildContext(search_results) ==
    IF search_results = <<>>
    THEN NoContext
    ELSE JoinBlankLine([i \in 1..Len(search_results) |-> ContextPart(search_results[i])])

\* the slip of calling the LLM a second time when the first call fails
ask_question_retries(question, top_k, llm_ok, coll, ranking, embed_ok, store_ok, gen_ok) ==
    IF Strip(question) = <<>>
    THEN [status |-> 400, detail |-> "empty_question", calls |-> <<>>, n_sources |-> 0,
          context |-> <<>>, sources |-> <<>>]
    ELSE IF ~llm_ok
    THEN [status |-> 503, detail |-> "llm_unavailable",
          calls |-> <<"check_connection">>, n_sources |-> 0,
          context |-> <<>>, sources |-> <<>>]
    ELSE IF get_document_count(coll) = 0
    THEN [status |-> 400, detail |-> "no_documents",
          calls |-> <<"check_connection", "get_document_count">>, n_sources |-> 0,
          context |-> <<>>, sources |-> <<>>]
    ELSE LET found == search(coll, Strip(question), top_k, ranking, embed_ok, store_ok)
         IN  IF found.raised
             THEN [status |-> 500, detail |-> "internal",
                   calls |-> <<"check_connection", "get_document_count", "search">>,
                   n_sources |-> 0, context |-> <<>>, sources |-> <<>>]
             ELSE [status |-> 200, detail |-> "answered",
                   calls |-> <<"check_connection", "get_document_count", "search",
                               "generate_response">>
                             \o (IF gen_ok THEN <<>> ELSE <<"generate_response">>),
                   n_sources |-> Len(found.results),
                   context |-> BuildContext(found.results),
                   sources |-> [i \in 1..Len(found.results) |->
                                   SourceDocument(found.results[i])]]

\* the slip of building the context from the previews
ask_question_preview_context(question, top_k, llm_ok, coll, ranking, embed_ok, store_ok, gen_ok) ==
    IF Strip(question) = <<>>
    THEN [status |-> 400, detail |-> "empty_question", calls |-> <<>>, n_sources |-> 0,
          context |-> <<>>, sources |-> <<>>]
    ELSE IF ~llm_ok
    THEN [status |-> 503, detail |-> "llm_unavailable",
          calls |-> <<"check_connection">>, n_sources |-> 0,
          context |-> <<>>, sources |-> <<>>]
    ELSE IF get_document_count(coll) = 0
    THEN [status |-> 400, detail |-> "no_documents",
          calls |-> <<"check_connection", "get_document_count">>, n_sources |-> 0,
          context |-> <<>>, sources |-> <<>>]
    ELSE LET found == search(coll, Strip(question), top_k, ranking, embed_ok, store_ok)
         IN  IF found.raised \/ ~gen_ok
             THEN [status |-> 500, detail |-> "internal",
                   calls |-> <<"check_connection", "get_document_count", "search">>
                             \o (IF found.raised THEN <<>> ELSE <<"generate_response">>),
                   n_sources |-> 0, context |-> <<>>, sources |-> <<>>]
             ELSE [status |-> 200, detail |-> "answered",
                   calls |-> <<"check_connection", "get_document_count", "search",
                               "generate_response">>,
                   n_sources |-> Len(found.results),
                   context |-> BuildContext([i \in 1..Len(found.results) |->
                                   [found.results[i] EXCEPT
                                       !.content = Preview(found.results[i].content)]]),
                   sources |-> [i \in 1..Len(found.results) |->
                                   SourceDocument(found.results[i])]]

\* the slip of cutting the preview without the marker
ask_question_bare_preview(question, top_k, llm_ok, coll, ranking, embed_ok, store_ok, gen_ok) ==
    IF Strip(question) = <<>>
    THEN [status |-> 400, detail |-> "empty_question", calls |-> <<>>, n_sources |-> 0,
          context |-> <<>>, sources |-> <<>>]
    ELSE IF ~llm_ok
    THEN [status |-> 503, detail |-> "llm_unavailable",
          calls |-> <<"check_connection">>, n_sources |-> 0,
          context |-> <<>>, sources |-> <<>>]
    ELSE IF get_document_count(coll) = 0
    THEN [status |-> 400, detail |-> "no_documents",
          calls |-> <<"check_connection", "get_document_count">>, n_sources |-> 0,
          context |-> <<>>, sources |-> <<>>]
    ELSE LET found == search(coll, Strip(question), top_k, ranking, embed_ok, store_ok)
         IN  IF found.raised \/ ~gen_ok
             THEN [status |-> 500, detail |-> "internal",
                   calls |-> <<"check_connection", "get_document_count", "search">>
                             \o (IF found.raised THEN <<>> ELSE <<"generate_response">>),
                   n_sources |-> 0, context |-> <<>>, sources |-> <<>>]
             ELSE [status |-> 200, detail |-> "answered",
                   calls |-> <<"check_connection", "get_document_count", "search",
                               "generate_response">>,
                   n_sources |-> Len(found.results),
                   context |-> BuildContext(found.results),
                   sources |-> [i \in 1..Len(found.results) |->
                                   [content |-> SubSeq(found.results[i].content, 1,
                                                       Min(preview_length,
                                                           Len(found.results[i].content))),
                                    source |-> found.results[i].source,
                                    score |-> Round3(found.results[i].score)]]]

\* ask_question (lines 79-143): the response and the calls it made, in order;
\* llm_ok is the answer of check_connection, ranking the index as it ranks
\* its entries for the question, embed_ok, store_ok and gen_ok say whether
\* the embedding, the query of the index and the generation return or raise
ask_question(question, top_k, llm_ok, coll, ranking, embed_ok, store_ok, gen_ok) ==
    IF Strip(question) = <<>>
    THEN [status |-> 400, detail |-> "empty_question", calls |-> <<>>, n_sources |-> 0,
          context |-> <<>>, sources |-> <<>>]
    ELSE IF ~llm_ok
    THEN [status |-> 503, detail |-> "llm_unavailable",
          calls |-> <<"check_connection">>, n_sources |-> 0,
          context |-> <<>>, sources |-> <<>>]
    ELSE IF get_document_count(coll) = 0
    THEN [status |-> 400, detail |-> "no_documents",
          calls |-> <<"check_connection", "get_document_count">>, n_sources |-> 0,
          context |-> <<>>, sources |-> <<>>]
    ELSE LET found == search(coll, Strip(question), top_k, ranking, embed_ok, store_ok)
         IN  IF found.raised
             THEN [status |-> 500, detail |-> "internal",
                   calls |-> <<"check_connection", "get_document_count", "search">>,
                   n_sources |-> 0, context |-> <<>>, sources |-> <<>>]
             ELSE IF ~gen_ok
             THEN [status |-> 500, detail |-> "internal",
                   calls |-> <<"check_connection", "get_document_count", "search",
                               "generate_response">>,
                   n_sources |-> 0, context |-> BuildContext(found.results),
                   sources |-> <<>>]
             ELSE [status |-> 200, detail |-> "answered",
                   calls |-> <<"check_connection", "get_document_count", "search",
                               "generate_response">>,
                   n_sources |-> Len(found.results),
                   context |-> BuildContext(found.results),
                   sources |-> [i \in 1..Len(found.results) |->
                                   SourceDocument(found.results[i])]]

\* LLMService.check_connection: client.list() answers or raises
check_connection == ollama_up

\* the elements of a finite set in some order
RECURSIVE SetToSeq(_)
SetToSeq(S) ==
    IF S = {} THEN <<>>
    ELSE LET x == CHOOSE y \in S : TRUE IN <<x>> \o SetToSeq(S \ {x})

\* the rankings of the index a question is answered with: every entry at
\* the same distance
AskRankings(coll) ==
    {[i \in 1..Cardinality(coll) |-> [entry |-> SetToSeq(coll)[i], distance |-> d]] :
        d \in {0, 2 * ScoreUnit}}

\* a POST /ask: the validation of AskRequest, then ask_question, which
\* awaits nothing
AskCall(r, question, top_k) ==
    /\ running = 0
    /\ req[r].pc = "idle"
    /\ \E embed_ok \in BOOLEAN, store_ok \in BOOLEAN, gen_ok \in BOOLEAN,
          ranking \in AskRankings(collection) :
         LET rec == [IdleReq EXCEPT !.op = "ask", !.question = question, !.top_k = top_k,
                                    !.had_chunks = get_document_count(collection),
                                    !.faults = Fault(embed_ok, "encode")
                                               \cup Fault(store_ok, "query")
                                               \cup Fault(gen_ok, "generate")]
             res == ask_question(question, top_k, check_connection, collection,
                                 ranking, embed_ok, store_ok, gen_ok)
         IN  IF ~AskRequestValid(question, top_k)
             THEN req' = [req EXCEPT ![r] = Finished(rec, 422, "validation")]
             ELSE req' = [req EXCEPT ![r] =
                             Finished([rec EXCEPT !.calls = res.calls,
                                                  !.n_sources = res.n_sources],
                                      res.status, res.detail)]
    /\ running' = r
    /\ UNCHANGED <<collection, files, ollama_up, cfgvars, spvars, advars>>

\* DocumentService.get_stored_documents: the files of the directory that
\* glob("*" + ext) matches for an allowed extension, by name
get_stored_documents(fs) ==
    {f \in fs : \E ext \in allowed_extensions :
        Len(f) >= Len(ext) /\ SubSeq(f, Len(f) - Len(ext) + 1, Len(f)) = ext}

\* list_documents as a function of the directory and the index
list_documents(fs, coll, store_ok) ==
    LET stored_docs == get_stored_documents(fs)
        got == get_sources(coll, store_ok)
        documents == {[filename |-> f,
                       chunks_count |-> IF f \in got.sources THEN 1 ELSE 0] :
                         f \in stored_docs}
    IN  IF got.raised
        THEN [status |-> 500, detail |-> "internal", documents |-> {}, total_count |-> 0]
        ELSE [status |-> 200, detail |-> "listed", documents |-> documents,
              total_count |-> Cardinality(documents)]

\* list_documents (lines 226-254): it awaits nothing
ListCall(r) ==
    /\ running = 0
    /\ req[r].pc = "idle"
    /\ \E store_ok \in BOOLEAN :
         LET res == list_documents(files, collection, store_ok)
         IN  req' = [req EXCEPT ![r] =
                        Finished([IdleReq EXCEPT !.op = "list",
                                                 !.faults = Fault(store_ok, "get"),
                                                 !.documents = res.documents,
                                                 !.total_count = res.total_count],
                                 res.status, res.detail)]
    /\ running' = r
    /\ UNCHANGED <<collection, files, ollama_up, cfgvars, spvars, advars>>

\* the response leaves; the slot and the event loop are free again
Respond(r) ==
    /\ running = r
    /\ req[r].pc = "done"
    /\ req' = [req EXCEPT ![r] = IdleReq]
    /\ running' = 0
    /\ UNCHANGED <<collection, files, ollama_up, cfgvars, spvars, advars>>

\* the Ollama server goes down or comes back; only ask_question looks at
\* it, in one step, so the change is taken between the steps of the handlers
OllamaToggle ==
    /\ running = 0
    /\ ollama_up' = ~ollama_up
    /\ UNCHANGED <<collection, files, req, running, cfgvars, spvars, advars>>

(***************************************************************************)
(* The requests the model sends.                                           *)
(***************************************************************************)
FileA == <<"a", ".", "m", "d">>
FileB == <<"b", ".", "P", "D", "F">>
FileC == <<"c", ".", "p", "y">>
Filenames == {FileA, FileB, FileC}

\* with chunk_size 4 and chunk_overlap 1: two chunks, three chunks, none
TextTwo == <<"b", "b", NL, NL, "a", "a">>
TextThree == <<"a", "a", NL, NL, "b", "b", NL, NL, "a", "b">>
TextBlank == <<SP, NL>>

Content(size, text, corrupt) == [size |-> size, text |-> text, corrupt |-> corrupt]
Uploads ==
    {[filename |-> FileA, content |-> Content(max_file_size, TextTwo, FALSE)],
     [filename |-> FileA, content |-> Content(1, TextThree, FALSE)],
     [filename |-> FileA, content |-> Content(1, TextBlank, FALSE)],
     [filename |-> FileA, content |-> Content(max_file_size + 1, TextThree, FALSE)],
     [filename |-> FileB, content |-> Content(1, TextTwo, FALSE)],
     [filename |-> FileB, content |-> Content(1, TextThree, TRUE)],
     [filename |-> FileC, content |-> Content(1, TextTwo, FALSE)]}

Questions == {<<>>, <<SP>>, <<"a", "?">>}
TopKs == {1, 3}

SvcStart ==
    /\ collection = {}
    /\ files = {}
    /\ ollama_up = TRUE
    /\ req = [r \in Reqs |-> IdleReq]
    /\ running = 0
    /\ adapter = NoCall

SplitIdle ==
    /\ sp_pc = "off"
    /\ sp_text = <<>>
    /\ sp_source = <<>>
    /\ sp_metadata = {}
    /\ sp_paragraphs = <<>>
    /\ sp = LoopStart

Init ==
    /\ chunk_size = MaxChunkSize
    /\ chunk_overlap = 1
    /\ SplitIdle
    /\ SvcStart

Next ==
    \/ \E r \in Reqs, u \in Uploads : UploadCall(r, u.filename, u.content)
    \/ \E r \in Reqs : UploadSave(r)
    \/ \E r \in Reqs : UploadDelete(r)
    \/ \E r \in Reqs : UploadAdd(r)
    \/ \E r \in Reqs, f \in Filenames : DeleteCall(r, f)
    \/ \E r \in Reqs, q \in Questions, k \in TopKs : AskCall(r, q, k)
    \/ \E r \in Reqs : ListCall(r)
    \/ \E r \in Reqs : Respond(r)
    \/ OllamaToggle

(***************************************************************************)
(* split_into_chunks step by step, on every text up to MaxTextLen.         *)
(***************************************************************************)
\* the chunker looks at no letter, only at whitespace and lengths: one letter
\* is enough to build every shape of text
Alphabet == {"a", SP, NL}
Texts == UNION {[1..n -> Alphabet] : n \in 0..MaxTextLen}
ChunkSizes == 3..MaxChunkSize
Overlaps == 0..MaxOverlap
SplitSources == {<<"a", ".", "m", "d">>}
\* a dict is the set of its <<key, value>> items
Metadatas == {{}, {<<"author", "x">>}}

InitSplit ==
    /\ chunk_size \in ChunkSizes
    /\ chunk_overlap \in Overlaps
    /\ sp_pc = "call"
    /\ sp_text \in Texts
    /\ sp_source \in SplitSources
    /\ sp_metadata \in Metadatas
    /\ sp_paragraphs = <<>>
    /\ sp = LoopStart
    /\ SvcStart

\* lines 152-164: the early return, or the split into paragraphs
SplitEnter ==
    /\ sp_pc = "call"
    /\ IF Strip(sp_text) = <<>>
       THEN /\ sp_pc' = "ret"
            /\ sp_paragraphs' = <<>>
       ELSE /\ sp_pc' = "loop"
            /\ sp_paragraphs' = SplitParagraphs(sp_text)
    /\ sp' = LoopStart
    /\ UNCHANGED <<sp_text, sp_source, sp_metadata, cfgvars, svcvars, advars>>

\* lines 166-193: one iteration
SplitParagraph ==
    /\ sp_pc = "loop"
    /\ sp_paragraphs # <<>>
    /\ sp' = LoopBody(sp, Head(sp_paragraphs), sp_source, sp_metadata)
    /\ sp_paragraphs' = Tail(sp_paragraphs)
    /\ UNCHANGED <<sp_pc, sp_text, sp_source, sp_metadata, cfgvars, svcvars, advars>>

\* lines 195-204: the final flush and the return
SplitReturn ==
    /\ sp_pc = "loop"
    /\ sp_paragraphs = <<>>
    /\ sp_pc' = "ret"
    /\ sp' = [sp EXCEPT !.chunks = FinalFlush(sp, sp_source, sp_metadata),
                        !.rule = "final", !.prev = sp.current_chunk,
                        !.para = <<>>, !.overlap_text = <<>>,
                        !.by = IF Strip(sp.current_chunk) # <<>>
                               THEN Append(sp.by, "final") ELSE sp.by]
    /\ UNCHANGED <<sp_paragraphs, sp_text, sp_source, sp_metadata, cfgvars, svcvars, advars>>

NextSplit == SplitEnter \/ SplitParagraph \/ SplitReturn

vars == <<cfgvars, spvars, svcvars, advars>>

Spec == Init /\ [][Next]_vars

SpecSplit == InitSplit /\ [][NextSplit]_vars

(***************************************************************************)
(* VectorService called directly: add_chunks, search, delete_by_source and *)
(* get_sources on every index of up to MaxIndexed chunks.                  *)
(***************************************************************************)
\* the most chunks the index holds
MaxIndexed == 3
\* top_k ranges from 1 to more than the index can hold
AdTopKs == 1..(MaxIndexed + 1)

\* the chunk lists handed to add_chunks: what split_into_chunks returns for
\* a text, a source and a caller's metadata, and the empty list
AdTexts == {<<>>, <<"a">>, TextTwo}
AdSources == {FileA, FileB}
\* no metadata, as upload_document passes, and metadata that uses the keys
\* add_chunks sets itself
AdMetadatas == {{}, {<<"source", FileB>>, <<"chunk_index", 7>>}}
ChunkLists ==
    {split_into_chunks(t, src, m) : t \in AdTexts, src \in AdSources, m \in AdMetadatas}

\* the sequences of n distances that do not decrease
SortedDistances(n) ==
    {d \in [1..n -> Distances] : \A i \in 1..(n - 1) : d[i] <= d[i + 1]}

\* the orders of the elements of a set
Orders(S) ==
    {p \in [1..Cardinality(S) -> S] : \A i, j \in 1..Cardinality(S) : p[i] = p[j] => i = j}

\* what the index can answer to a query: its entries nearest first, each
\* with its cosine distance to the query
Rankings(coll) ==
    {[i \in 1..Cardinality(coll) |-> [entry |-> p[i], distance |-> d[i]]] :
        p \in Orders(coll), d \in SortedDistances(Cardinality(coll))}

\* a call that raises before the index answers is made with one ranking
RankingsFor(coll, embed_ok, store_ok) ==
    IF embed_ok /\ store_ok
    THEN Rankings(coll)
    ELSE {[i \in 1..Cardinality(coll) |-> [entry |-> SetToSeq(coll)[i], distance |-> 0]]}

InitAdapter ==
    /\ chunk_size = MaxChunkSize
    /\ chunk_overlap = 1
    /\ SplitIdle
    /\ SvcStart

\* a call of add_chunks
AdAddChunks ==
    /\ adapter = NoCall
    /\ \E chunks \in ChunkLists, embed_ok \in BOOLEAN, store_ok \in BOOLEAN :
         LET res == add_chunks(collection, chunks, embed_ok, store_ok)
         IN  /\ Cardinality(collection) + Len(chunks) <= MaxIndexed
             /\ collection' = res.collection
             /\ adapter' = [NoCall EXCEPT !.fn = "add_chunks", !.before = collection,
                                          !.chunks = chunks, !.embed_ok = embed_ok,
                                          !.store_ok = store_ok, !.raised = res.raised,
                                          !.count = res.count, !.calls = res.calls]
    /\ UNCHANGED <<files, ollama_up, req, running, cfgvars, spvars>>

\* a call of search
AdSearch ==
    /\ adapter = NoCall
    /\ \E top_k \in AdTopKs, embed_ok \in BOOLEAN, store_ok \in BOOLEAN :
         \E ranking \in RankingsFor(collection, embed_ok, store_ok) :
           LET res == search(collection, <<"a", "?">>, top_k, ranking, embed_ok, store_ok)
           IN  adapter' = [NoCall EXCEPT !.fn = "search", !.before = collection,
                                         !.top_k = top_k, !.embed_ok = embed_ok,
                                         !.store_ok = store_ok, !.raised = res.raised,
                                         !.results = res.results, !.calls = res.calls]
    /\ UNCHANGED <<collection, files, ollama_up, req, running, cfgvars, spvars>>

\* a call of delete_by_source
AdDeleteBySource ==
    /\ adapter = NoCall
    /\ \E source \in AdSources \cup {FileC}, store_ok \in BOOLEAN :
         LET res == delete_by_source(collection, source, store_ok)
         IN  /\ collection' = res.collection
             /\ adapter' = [NoCall EXCEPT !.fn = "delete_by_source",
                                          !.before = collection, !.source = source,
                                          !.store_ok = store_ok, !.raised = res.raised,
                                          !.count = res.count]
    /\ UNCHANGED <<files, ollama_up, req, running, cfgvars, spvars>>

\* a call of get_sources
AdGetSources ==
    /\ adapter = NoCall
    /\ \E store_ok \in BOOLEAN :
         LET res == get_sources(collection, store_ok)
         IN  adapter' = [NoCall EXCEPT !.fn = "get_sources", !.before = collection,
                                       !.store_ok = store_ok, !.raised = res.raised,
                                       !.sources = res.sources]
    /\ UNCHANGED <<collection, files, ollama_up, req, running, cfgvars, spvars>>

\* the caller has taken the result; the next call can be made
AdReturn ==
    /\ adapter # NoCall
    /\ adapter' = NoCall
    /\ UNCHANGED <<collection, files, ollama_up, req, running, cfgvars, spvars>>

NextAdapter ==
    \/ AdAddChunks
    \/ AdSearch
    \/ AdDeleteBySource
    \/ AdGetSources
    \/ AdReturn

SpecAdapter == InitAdapter /\ [][NextAdapter]_vars

(***************************************************************************)
(* The specification of POST /ask over an index of documents around the    *)
(* preview length: the whole response is recorded.                         *)
(***************************************************************************)
Filled(n) == [i \in 1..n |-> "x"]

AskEntries ==
    {Entry(DocumentChunk(<<"a", ".", ".", ".">>, FileA, 0, {})),
     Entry(DocumentChunk(Filled(preview_length), FileA, 1, {})),
     Entry(DocumentChunk(Filled(preview_length + 1), FileB, 0, {})),
     Entry(DocumentChunk(Filled(preview_length + 3), FileB, 1, {}))}

AskIndexes == {c \in SUBSET AskEntries : Cardinality(c) <= MaxIndexed}

\* what the index answers a query with: the nearest entries first, as many
\* as it finds
FoundRankings(coll, embed_ok, store_ok) ==
    {SubSeq(ranking, 1, n) : ranking \in RankingsFor(coll, embed_ok, store_ok),
                             n \in 0..Cardinality(coll)}

InitAsk ==
    /\ chunk_size = MaxChunkSize
    /\ chunk_overlap = 1
    /\ SplitIdle
    /\ collection \in AskIndexes
    /\ files = {}
    /\ ollama_up \in BOOLEAN
    /\ req = [r \in Reqs |-> IdleReq]
    /\ running = 0
    /\ adapter = NoCall

\* a POST /ask with the response kept whole
AsAsk(r) ==
    /\ running = 0
    /\ req[r].pc = "idle"
    /\ \E top_k \in AdTopKs, embed_ok \in BOOLEAN, store_ok \in BOOLEAN, gen_ok \in BOOLEAN :
         \E ranking \in FoundRankings(collection, embed_ok, store_ok) :
           LET question == <<"a", "?">>
               rec == [IdleReq EXCEPT !.op = "ask", !.question = question, !.top_k = top_k,
                                      !.had_chunks = get_document_count(collection),
                                      !.faults = Fault(embed_ok, "encode")
                                                 \cup Fault(store_ok, "query")
                                                 \cup Fault(gen_ok, "generate")]
               res == ask_question(question, top_k, check_connection, collection,
                                   ranking, embed_ok, store_ok, gen_ok)
               found == search(collection, Strip(question), top_k, ranking,
                               embed_ok, store_ok)
           IN  req' = [req EXCEPT ![r] =
                          Finished([rec EXCEPT !.calls = res.calls,
                                               !.n_sources = res.n_sources,
                                               !.results = found.results,
                                               !.context = res.context,
                                               !.sources = res.sources],
                                   res.status, res.detail)]
    /\ running' = r
    /\ UNCHANGED <<collection, files, ollama_up, cfgvars, spvars, advars>>

\* ask_question awaits nothing, so the requests run one after the other:
\* one request slot is enough
NextAsk ==
    \/ AsAsk(1)
    \/ Respond(1)

SpecAsk == InitAsk /\ [][NextAsk]_vars

(***************************************************************************)
(* The specification of the ids of add_chunks: single chunks of sources    *)
(* made of letters, underscores and digits are added to an index of at     *)
(* most two chunks.                                                        *)
(***************************************************************************)
MaxSourceLen == 2
MaxChunkIndex == 11

IdAlphabet == {"a", "_", "1"}
IdSources == UNION {[1..n -> IdAlphabet] : n \in 1..MaxSourceLen}
IdIndexes == 0..MaxChunkIndex

InitIds ==
    /\ chunk_size = MaxChunkSize
    /\ chunk_overlap = 1
    /\ SplitIdle
    /\ SvcStart

\* a call of add_chunks with one chunk
IdAdd ==
    /\ adapter = NoCall
    /\ Cardinality(collection) < 2
    /\ \E source \in IdSources, chunk_index \in IdIndexes :
         LET chunks == <<DocumentChunk(<<"a">>, source, chunk_index, {})>>
             res == add_chunks(collection, chunks, TRUE, TRUE)
         IN  /\ collection' = res.collection
             /\ adapter' = [NoCall EXCEPT !.fn = "add_chunks", !.before = collection,
                                          !.chunks = chunks, !.raised = res.raised,
                                          !.count = res.count, !.calls = res.calls]
    /\ UNCHANGED <<files, ollama_up, req, running, cfgvars, spvars>>

NextIds ==
    \/ IdAdd
    \/ AdReturn

SpecIds == InitIds /\ [][NextIds]_vars

(***************************************************************************)
(* Properties of the chunker, checked under SpecSplit.                     *)
(***************************************************************************)
Range(f) == {f[i] : i \in DOMAIN f}
MaxOf(S) == IF S = {} THEN 0 ELSE CHOOSE m \in S : \A n \in S : n <= m
\* the last k characters of s
LastChars(s, k) == SubSeq(s, Len(s) - k + 1, Len(s))
LongestWord(text) == MaxOf({Len(w) : w \in Range(SplitWords(text))})
LongestParagraph(text) == MaxOf({Len(Strip(p)) : p \in Range(SplitParagraphs(text))})

\* the step-by-step run returns what split_into_chunks computes
SplitAgrees ==
    sp_pc = "ret" => sp.chunks = split_into_chunks(sp_text, sp_source, sp_metadata)

\* C4: every chunk emitted so far carries chunk_index equal to its position in
\* the output (0, 1, ..., n-1), whichever rule emitted it.
C4_ChunkIndexIsPosition ==
    /\ \A i \in 1..Len(sp.chunks) : sp.chunks[i].chunk_index = i - 1
    /\ Len(sp.by) = Len(sp.chunks)

\* C4 witness: a returned output whose chunks came from the word-level
\* fallback, from a flush with overlap and from the final flush.
C4_Witness ==
    /\ sp_pc = "ret"
    /\ Range(sp.by) = {"long", "flush", "final"}
    /\ sp_metadata # {}

\* C5, as claimed: with 0 < chunk_overlap < chunk_size every chunk is at most
\* chunk_size plus the length of one word long.
C5_ContentBound ==
    (0 < chunk_overlap /\ chunk_overlap < chunk_size) =>
        \A i \in 1..Len(sp.chunks) :
            Len(sp.chunks[i].content) <= chunk_size + LongestWord(sp_text)

\* C6, as claimed: after a flush of the non-empty buffer b for paragraph p the
\* new buffer is the last min(chunk_overlap, len(b)) characters of b, the
\* blank-line separator and p, for every chunk_overlap >= 0.
C6_OverlapTail ==
    sp.rule = "flush" =>
        /\ sp.prev # <<>>
        /\ sp.current_chunk =
               LastChars(sp.prev, Min(chunk_overlap, Len(sp.prev))) \o SEP \o sp.para

\* C7: with chunk_overlap >= chunk_size the overlap tail is never longer than
\* the flushed buffer, and every chunk and the running buffer stay within
\* max(chunk_size, chunk_overlap + 2 + longest paragraph), however many
\* paragraphs the text has.
C7_Bound == Max(chunk_size, chunk_overlap + 2 + LongestParagraph(sp_text))

C7_MisconfigurationTolerated ==
    chunk_overlap >= chunk_size =>
        /\ sp.rule = "flush" => Len(sp.overlap_text) - Len(SEP) <= Len(sp.prev)
        /\ Len(sp.current_chunk) <= C7_Bound
        /\ \A i \in 1..Len(sp.chunks) : Len(sp.chunks[i].content) <= C7_Bound

\* C7 witness: a misconfigured run that returned after a flush cut the tail
\* of a buffer longer than chunk_overlap.
C7_Witness ==
    /\ chunk_overlap >= chunk_size
    /\ sp_pc = "ret"
    /\ \E i \in 1..Len(sp.chunks) :
          /\ sp.by[i] = "flush"
          /\ Len(sp.chunks[i].content) > chunk_overlap

\* the texts of str.split("\n\n") that are not blank, stripped
RECURSIVE TrimmedParagraphs(_)
TrimmedParagraphs(paragraphs) ==
    IF paragraphs = <<>> THEN <<>>
    ELSE (IF Strip(Head(paragraphs)) = <<>> THEN <<>> ELSE <<Strip(Head(paragraphs))>>)
             \o TrimmedParagraphs(Tail(paragraphs))

\* the words of the contents of chunks, in order
RECURSIVE WordsOfChunks(_)
WordsOfChunks(chunks) ==
    IF chunks = <<>> THEN <<>>
    ELSE SplitWords(Head(chunks).content) \o WordsOfChunks(Tail(chunks))

\* a is b with some elements left out
RECURSIVE IsSubsequence(_, _)
IsSubsequence(a, b) ==
    IF a = <<>> THEN TRUE
    ELSE IF b = <<>> THEN FALSE
    ELSE IF Head(a) = Head(b) THEN IsSubsequence(Tail(a), Tail(b))
    ELSE IsSubsequence(a, Tail(b))

AllWhitespace(text) == \A i \in 1..Len(text) : text[i] \in Whitespace

\* C21: for every text that is empty or made of whitespace only,
\* split_into_chunks returns the empty sequence.
C21_BlankTextNoChunks ==
    (sp_pc = "ret" /\ AllWhitespace(sp_text)) => sp.chunks = <<>>

\* C21 witness: a text of spaces and blank lines has been split into nothing.
C21_Witness ==
    /\ sp_pc = "ret"
    /\ Len(sp_text) >= 4
    /\ AllWhitespace(sp_text)
    /\ SP \in Range(sp_text)
    /\ FirstSep(sp_text) > 0
    /\ sp.chunks = <<>>

\* C22, as claimed: when the trimmed non-empty paragraphs of the text, joined
\* by blank lines, are at most chunk_size long, split_into_chunks returns one
\* chunk, whose content is that joined text.
C22_FittingTextOneChunk ==
    LET joined == JoinBlankLine(TrimmedParagraphs(SplitParagraphs(sp_text)))
    IN  (sp_pc = "ret" /\ joined # <<>> /\ Len(joined) <= chunk_size) =>
            /\ Len(sp.chunks) = 1
            /\ sp.chunks[1].content = joined

\* C26: the words of the text are a subsequence of the words of the returned
\* chunks read in order: no word of the text is dropped.
C26_NoTextDropped ==
    sp_pc = "ret" =>
        IsSubsequence(SplitWords(sp_text), WordsOfChunks(sp.chunks))

\* C26 witness: a text whose words went through the word-level fallback, a
\* flush with overlap and the final flush has been returned.
C26_Witness ==
    /\ sp_pc = "ret"
    /\ Range(sp.by) = {"long", "flush", "final"}
    /\ Len(SplitWords(sp_text)) >= 3
    /\ chunk_overlap > 0

\* C27: after a paragraph has been split at word level, the chunks it gave
\* hold its words in order, each word once; each of them is non-empty and at
\* most chunk_size long unless it is a single word; and the running buffer is
\* empty, so the next chunk starts without overlap.
C27_WordLevelFallback ==
    sp.rule = "long" =>
        /\ sp.current_chunk = <<>>
        /\ \E k \in 1..Len(sp.chunks) :
              LET emitted == SubSeq(sp.chunks, Len(sp.chunks) - k + 1, Len(sp.chunks))
              IN  /\ WordsOfChunks(emitted) = SplitWords(sp.para)
                  /\ \A i \in 1..k :
                        /\ emitted[i].content # <<>>
                        /\ sp.by[Len(sp.chunks) - k + i] = "long"
                        /\ \/ Len(emitted[i].content) <= chunk_size
                           \/ SplitWords(emitted[i].content) = <<emitted[i].content>>

\* C27 witness: a paragraph of three words has just been split at word level
\* into more than one chunk, one of them a word longer than chunk_size.
C27_Witness ==
    /\ sp.rule = "long"
    /\ Len(SplitWords(sp.para)) >= 3
    /\ \E i, j \in 1..Len(sp.chunks) :
          /\ i # j
          /\ sp.by[i] = "long"
          /\ sp.by[j] = "long"
          /\ Len(sp.chunks[i].content) > chunk_size

(***************************************************************************)
(* Properties of the request handlers, checked under Spec.                 *)
(***************************************************************************)
\* the entries an upload of text under filename puts into the index
UploadedEntries(text, filename) ==
    {Entry(c) : c \in Range(split_into_chunks(text, filename, {}))}

UploadDone(r) == req[r].op = "upload" /\ req[r].pc = "done"
DeleteDone(r) == req[r].op = "delete" /\ req[r].pc = "done"
AskDone(r) == req[r].op = "ask" /\ req[r].pc = "done"

\* C1: when an upload of a filename has completed successfully, whatever the
\* index held for that filename before, the index holds for it exactly the
\* chunks of this upload, as many as the response reports; no earlier chunk
\* of the filename survives.
C1_ReuploadReplaces ==
    \A r \in Reqs :
        (UploadDone(r) /\ req[r].status = 200) =>
            /\ ChunksOf(collection, req[r].filename)
                   = UploadedEntries(req[r].text, req[r].filename)
            /\ Cardinality(ChunksOf(collection, req[r].filename)) = req[r].chunks_created
            /\ req[r].chunks_created
                   = Len(split_into_chunks(req[r].text, req[r].filename, {}))

\* C1 witness: a filename that held three chunks has been uploaded again
\* with a text of two chunks.
C1_Witness ==
    \E r \in Reqs :
        /\ UploadDone(r)
        /\ req[r].status = 200
        /\ req[r].had_chunks = 3
        /\ req[r].chunks_deleted = 3
        /\ req[r].chunks_created = 2

ChunkIndexes(coll, source) ==
    {DictGet(e.metadata, "chunk_index", -1) : e \in ChunksOf(coll, source)}

\* C2: in every reachable state the chunk_index values of each source in the
\* index are exactly 0..N-1 for its N chunks, with no gap and no duplicate.
C2_IndexContiguity ==
    \A f \in Filenames :
        /\ ChunkIndexes(collection, f) = 0..(Cardinality(ChunksOf(collection, f)) - 1)
        /\ \A e1, e2 \in ChunksOf(collection, f) :
               DictGet(e1.metadata, "chunk_index", -1) = DictGet(e2.metadata, "chunk_index", -1)
                   => e1 = e2

\* C2 witness: a delete has removed the two chunks of one source while another
\* source keeps its three.
C2_Witness ==
    \E r \in Reqs :
        /\ DeleteDone(r)
        /\ req[r].status = 200
        /\ req[r].had_chunks = 2
        /\ \E f \in Filenames : Cardinality(ChunksOf(collection, f)) = 3

\* C3: while one upload of a source stands between its delete_by_source and
\* its add_chunks, no other upload of the same source performs its delete or
\* its insert.
C3_SameSourceSerialized ==
    [][\A r1, r2 \in Reqs :
          (/\ r1 # r2
           /\ req[r1].op = "upload"
           /\ req[r1].pc = "deleted"
           /\ req[r2].op = "upload"
           /\ req[r2].filename = req[r1].filename)
          => ~(req[r2].pc \in {"extracted", "deleted"} /\ req'[r2].pc # req[r2].pc)]_vars

\* C3 witness: an upload has deleted the chunks of its source and not yet
\* inserted its own, with another upload of the same source in flight.
C3_Witness ==
    \E r1, r2 \in Reqs :
        /\ r1 # r2
        /\ req[r1].op = "upload"
        /\ req[r1].pc = "deleted"
        /\ req[r1].chunks_deleted > 0
        /\ req[r2].op = "upload"
        /\ req[r2].pc = "read"
        /\ req[r2].filename = req[r1].filename

\* C8, as claimed: a delete in which the index did not fail reports not-found
\* exactly when neither a chunk nor the file existed before; with the file
\* and no chunk it removes the file and reports success.
C8_NotFoundIffNothingExisted ==
    \A r \in Reqs :
        (DeleteDone(r) /\ req[r].status # 500) =>
            /\ (req[r].status = 404) <=> (req[r].had_chunks = 0 /\ ~req[r].had_file)
            /\ (req[r].had_file /\ req[r].had_chunks = 0) =>
                   (req[r].status = 200 /\ req[r].filename \notin files)

\* C9, as claimed: whenever no handler is running, a file exists for a
\* filename exactly when the index holds a chunk of that source.
C9_FileIffChunks ==
    running = 0 =>
        \A f \in Filenames : (f \in files) <=> (ChunksOf(collection, f) # {})

\* C10: ask_question checks the trimmed question, then the LLM, then the
\* index; the first failing check decides the response and nothing after it
\* is called.
C10_AskPreconditionOrder ==
    \A r \in Reqs :
        (AskDone(r) /\ req[r].status # 422) =>
            LET blank == Strip(req[r].question) = <<>>
                down == ~ollama_up
                empty == req[r].had_chunks = 0
                calls == req[r].calls
            IN  /\ blank =>
                       req[r].status = 400 /\ req[r].detail = "empty_question" /\ calls = <<>>
                /\ (~blank /\ down) =>
                       /\ req[r].status = 503
                       /\ req[r].detail = "llm_unavailable"
                       /\ calls = <<"check_connection">>
                /\ (~blank /\ ~down /\ empty) =>
                       /\ req[r].status = 400
                       /\ req[r].detail = "no_documents"
                       /\ calls = <<"check_connection", "get_document_count">>
                /\ (~blank /\ ~down /\ ~empty) =>
                       /\ Len(calls) >= 3
                       /\ SubSeq(calls, 1, 3)
                              = <<"check_connection", "get_document_count", "search">>
                /\ (blank \/ down \/ empty) =>
                       /\ "search" \notin Range(calls)
                       /\ "generate_response" \notin Range(calls)

\* C10 witness: an ask for which the three preconditions fail together.
C10_Witness ==
    \E r \in Reqs :
        /\ AskDone(r)
        /\ Strip(req[r].question) = <<>>
        /\ Len(req[r].question) > 0
        /\ ~ollama_up
        /\ req[r].had_chunks = 0
        /\ req[r].status = 400

\* an ask that got past the validation of AskRequest with a question that is
\* not blank, while Ollama answers and the index is empty
AskOnEmptyIndex(r) ==
    /\ AskDone(r)
    /\ req[r].status # 422
    /\ Strip(req[r].question) # <<>>
    /\ ollama_up
    /\ req[r].had_chunks = 0

\* C11, as claimed: an ask with a non-empty question and a reachable LLM but
\* an empty index is answered with the service-unavailable outcome (503), the
\* outcome of an unreachable LLM, and not with the outcome of an empty
\* question.
C11_EmptyIndexServiceUnavailable ==
    \A r \in Reqs : AskOnEmptyIndex(r) => req[r].status = 503

\* C11, amended: an ask with a non-empty question and a reachable LLM but an
\* empty index is answered with the bad-request outcome (400), the same
\* status as an empty question, told apart from it only by its detail; only
\* an unreachable LLM gives 503.
C11_EmptyIndexBadRequest ==
    \A r \in Reqs :
        /\ AskOnEmptyIndex(r) =>
               /\ req[r].status = 400
               /\ req[r].detail = "no_documents"
        /\ (AskDone(r) /\ req[r].status = 503) =>
               (~ollama_up /\ Strip(req[r].question) # <<>>)
        /\ (AskDone(r) /\ req[r].status # 422 /\ Strip(req[r].question) = <<>>) =>
               /\ req[r].status = 400
               /\ req[r].detail = "empty_question"

\* C11 witness: a question that is not blank has been asked of an empty index
\* with Ollama up, and got 400.
C11_Witness ==
    \E r \in Reqs :
        /\ AskOnEmptyIndex(r)
        /\ req[r].question = <<"a", "?">>
        /\ req[r].status = 400
        /\ req[r].detail = "no_documents"

ListDone(r) == req[r].op = "list" /\ req[r].pc = "done"

\* C13: an upload whose add_chunks met a failing embedding model or a
\* failing insert, and an ask whose search met a failing embedding model or
\* a failing query, end with the internal-failure outcome (500), never with
\* success.
C13_AddSearchFailuresSurface ==
    \A r \in Reqs :
        /\ (UploadDone(r) /\ req[r].faults \cap {"encode", "add"} # {}) =>
               /\ req[r].status = 500
               /\ req[r].chunks_created = 0
        /\ (AskDone(r) /\ "search" \in Range(req[r].calls)
                       /\ req[r].faults \cap {"encode", "query"} # {}) =>
               /\ req[r].status = 500
               /\ req[r].n_sources = 0

\* C13 witness: an upload that had deleted the three chunks of its source
\* ended with 500 because the insert into the index failed.
C13_Witness ==
    \E r \in Reqs :
        /\ UploadDone(r)
        /\ req[r].faults = {"add"}
        /\ req[r].chunks_deleted = 3
        /\ req[r].status = 500

\* C19, as claimed: in every document list, chunks_count of a document is
\* the number of chunks the index holds for its filename, and total_count is
\* the number of documents listed.
C19_ListCountsExact ==
    \A r \in Reqs :
        (ListDone(r) /\ req[r].status = 200) =>
            /\ \A d \in req[r].documents :
                   d.chunks_count = Cardinality(ChunksOf(collection, d.filename))
            /\ req[r].total_count = Cardinality(req[r].documents)

\* C20: an upload whose extension, lower-cased, is not allowed or whose size
\* is above the maximum ends as a validation error in the step that
\* validates it, and that step writes no file and changes no chunk; an
\* upload with an allowed extension and a size up to the maximum, the maximum
\* included, passes the validation and its file is written.
C20_ValidationNoSideEffects ==
    [][\A r \in Reqs :
          (req[r].op = "upload" /\ req[r].pc = "read" /\ req'[r].pc # "read") =>
              LET allowed == Lower(Suffix(req[r].filename)) \in allowed_extensions
                  fits == req[r].content.size <= max_file_size
                  rejected == /\ req'[r].pc = "done"
                              /\ req'[r].status = 400
                              /\ req'[r].detail \in {"unsupported_type", "too_large"}
              IN  /\ ~(allowed /\ fits) =>
                         (rejected /\ files' = files /\ collection' = collection)
                  /\ (allowed /\ fits) =>
                         (~rejected /\ req[r].filename \in files')]_vars

\* C20 witness: an upload one byte above the maximum has been rejected, and
\* no file of its name exists.
C20_Witness ==
    \E r \in Reqs :
        /\ UploadDone(r)
        /\ req[r].content.size = max_file_size + 1
        /\ req[r].status = 400
        /\ req[r].detail = "too_large"
        /\ ~req[r].had_file
        /\ req[r].filename \notin files

\* the upload passed validate_file and then ended in a failure
FailedAfterValidation(r) ==
    /\ UploadDone(r)
    /\ validate_file(req[r].filename, req[r].content.size).ok
    /\ req[r].status # 200

\* C28: an upload of an already-indexed filename that passes validation and
\* then fails (extraction error, blank text, embedding or insert failure)
\* leaves in the index, for that filename, exactly the chunks it held before
\* the request.
C28_FailedReuploadAtomic ==
    \A r \in Reqs :
        (FailedAfterValidation(r) /\ req[r].had_chunks > 0) =>
            ChunksOf(collection, req[r].filename) = ChunksOf(req[r].before, req[r].filename)

OtherSources(coll, filename) == {e \in coll : EntrySource(e) # filename}

\* C29: an upload or a delete of a filename leaves the chunks of every other
\* source as they were, and the count changes by exactly the chunks inserted
\* for the filename minus the chunks it had before.
C29_OtherSourcesUntouched ==
    \A r \in Reqs :
        (UploadDone(r) \/ DeleteDone(r)) =>
            /\ OtherSources(collection, req[r].filename)
                  = OtherSources(req[r].before, req[r].filename)
            /\ get_document_count(collection)
                  = get_document_count(req[r].before) + req[r].chunks_created
                    - req[r].chunks_deleted
            /\ req[r].status = 200 => req[r].chunks_deleted = req[r].had_chunks

C29_Witness ==
    \E r \in Reqs :
        /\ UploadDone(r)
        /\ req[r].status = 200
        /\ req[r].had_chunks > 0
        /\ req[r].chunks_created > 0
        /\ req[r].chunks_created # req[r].had_chunks
        /\ OtherSources(req[r].before, req[r].filename) # {}

C29_DeleteWitness ==
    \E r \in Reqs :
        /\ DeleteDone(r)
        /\ req[r].status = 200
        /\ req[r].had_chunks > 0
        /\ OtherSources(req[r].before, req[r].filename) # {}

\* the positions of a call in the calls of a request
PositionsOf(calls, name) == {i \in 1..Len(calls) : calls[i] = name}

\* C25: within one ask request the generation is called at most once and
\* only after the search has returned; when that call fails the request ends
\* with the failure outcome and the call is not made again.
C25_GenerateOnceNoRetry ==
    \A r \in Reqs :
        AskDone(r) =>
            LET gen == PositionsOf(req[r].calls, "generate_response")
                srch == PositionsOf(req[r].calls, "search")
            IN  /\ Cardinality(gen) <= 1
                /\ \A g \in gen :
                      /\ \E k \in srch : k < g
                      /\ ~("encode" \in req[r].faults) /\ ~("query" \in req[r].faults)
                      /\ "generate" \in req[r].faults =>
                             req[r].status = 500 /\ g = Len(req[r].calls)

C25_Witness ==
    \E r \in Reqs :
        /\ AskDone(r)
        /\ req[r].faults = {"generate"}
        /\ Cardinality(PositionsOf(req[r].calls, "generate_response")) = 1
        /\ req[r].status = 500

(***************************************************************************)
(* Properties of the response of POST /ask, checked under SpecAsk.         *)
(***************************************************************************)
Answered(r) == AskDone(r) /\ req[r].status = 200

\* the search ran and returned its results
Searched(r) == AskDone(r) /\ "search" \in Range(req[r].calls) /\ ~("encode" \in req[r].faults)
                          /\ ~("query" \in req[r].faults)

RECURSIVE RenderedFrom(_, _)
RenderedFrom(search_results, i) ==
    IF i > Len(search_results) THEN <<>>
    ELSE <<"[">> \o search_results[i].source \o <<"]", ":", " ">>
         \o search_results[i].content
         \o (IF i < Len(search_results) THEN <<NL, NL>> ELSE <<>>)
         \o RenderedFrom(search_results, i + 1)

\* C23: the context handed to the generation is the search results in rank
\* order, each rendered "[source]: content" with its full content, joined by
\* blank lines; when the search returned nothing it is the fixed placeholder.
C23_ContextFromResults ==
    \A r \in Reqs :
        (AskDone(r) /\ "generate_response" \in Range(req[r].calls)) =>
            IF req[r].results = <<>>
            THEN req[r].context = NoContext
            ELSE req[r].context = RenderedFrom(req[r].results, 1)

C23_Witness ==
    \E r \in Reqs :
        /\ Answered(r)
        /\ Len(req[r].results) >= 2
        /\ req[r].results[1].source # req[r].results[2].source
        /\ Len(req[r].results[1].content) > preview_length
        /\ req[r].context = RenderedFrom(req[r].results, 1)

C23_PlaceholderWitness ==
    \E r \in Reqs : Answered(r) /\ req[r].results = <<>> /\ req[r].context = NoContext

EndsWithEllipsis(text) ==
    Len(text) >= 3 /\ SubSeq(text, Len(text) - 2, Len(text)) = <<".", ".", ".">>

\* the sources are the results, same number and order, same source file
SourcesFollowResults(r) ==
    /\ Len(req[r].sources) = Len(req[r].results)
    /\ \A i \in 1..Len(req[r].sources) :
          req[r].sources[i].source = req[r].results[i].source

\* C24 as stated: a preview ends with the marker exactly when the content
\* was truncated.
C24_MarkerIffTruncated ==
    \A r \in Reqs :
        Answered(r) =>
            /\ SourcesFollowResults(r)
            /\ \A i \in 1..Len(req[r].sources) :
                  LET content == req[r].results[i].content
                      preview == req[r].sources[i].content
                  IN  /\ Len(content) <= 200 => preview = content
                      /\ Len(content) > 200 =>
                             preview = SubSeq(content, 1, 200) \o <<".", ".", ".">>
                      /\ Len(preview) <= 203
                      /\ EndsWithEllipsis(preview) <=> Len(content) > 200

\* C24, amended: the sources are the results in the same number and order;
\* a preview is the content unchanged up to 200 characters and otherwise its
\* first 200 characters followed by "...", so it never exceeds 203
\* characters and the marker is appended exactly when the content was
\* truncated (an untruncated content may itself end with "...").
C24_PreviewOfContent ==
    \A r \in Reqs :
        Answered(r) =>
            /\ SourcesFollowResults(r)
            /\ \A i \in 1..Len(req[r].sources) :
                  LET content == req[r].results[i].content
                      preview == req[r].sources[i].content
                  IN  /\ Len(content) <= 200 => preview = content
                      /\ Len(content) > 200 =>
                             /\ preview = SubSeq(content, 1, 200) \o <<".", ".", ".">>
                             /\ Len(preview) = 203
                      /\ Len(preview) <= 203

C24_Witness ==
    \E r \in Reqs :
        /\ Answered(r)
        /\ Len(req[r].sources) >= 3
        /\ \E i, j, k \in 1..Len(req[r].sources) :
              /\ Len(req[r].results[i].content) = 200
              /\ req[r].sources[i].content = req[r].results[i].content
              /\ Len(req[r].results[j].content) = 201
              /\ Len(req[r].sources[j].content) = 203
              /\ EndsWithEllipsis(req[r].results[k].content)
              /\ req[r].sources[k].content = req[r].results[k].content

(***************************************************************************)
(* Properties of the ids of add_chunks, checked under SpecIds.             *)
(***************************************************************************)
\* the (source, chunk_index) pairs of the chunks a collection holds
PairsOf(coll) ==
    {<<EntrySource(e), DictGet(e.metadata, "chunk_index", 0)>> : e \in coll}

\* C30: the id built from (source, chunk_index) differs for any two
\* different pairs, underscores and digits in the source included: a chunk
\* whose pair the index does not hold gets an id the index does not hold, is
\* inserted, and overwrites nothing.
C30_IdsInjective ==
    /\ \A e1, e2 \in collection : e1.id = e2.id => e1 = e2
    /\ adapter.fn = "add_chunks" =>
          LET chunk == adapter.chunks[1]
              id == chunk.source \o <<"_">> \o IntToStr(chunk.chunk_index)
          IN  ~(<<chunk.source, chunk.chunk_index>> \in PairsOf(adapter.before)) =>
                  /\ \A e \in adapter.before : e.id # id
                  /\ adapter.before \subseteq collection
                  /\ \E e \in collection \ adapter.before :
                        /\ EntrySource(e) = chunk.source
                        /\ DictGet(e.metadata, "chunk_index", 0) = chunk.chunk_index
                  /\ Cardinality(collection) = Cardinality(adapter.before) + 1

\* the chunk ("a", 10) is added to an index that holds ("a_1", 0), ("a1", 0)
\* or ("a", 1)
C30_Witness ==
    /\ adapter.fn = "add_chunks"
    /\ adapter.chunks[1].chunk_index >= 10
    /\ \E e \in adapter.before :
          /\ Len(EntrySource(e)) > Len(adapter.chunks[1].source)
          /\ SubSeq(EntrySource(e), 1, Len(adapter.chunks[1].source))
                = adapter.chunks[1].source
          /\ EntrySource(e)[Len(EntrySource(e))] = "1"
    /\ Cardinality(collection) = 2

(***************************************************************************)
(* Properties of VectorService, checked under SpecAdapter.                 *)
(***************************************************************************)
Called(fn) == adapter.fn = fn

\* C12, as claimed: when the index raises during delete_by_source or
\* get_sources the call does not raise; delete_by_source returns 0 and
\* get_sources returns no source.
C12_SoftFail ==
    /\ (Called("delete_by_source") /\ ~adapter.store_ok) =>
           (~adapter.raised /\ adapter.count = 0)
    /\ (Called("get_sources") /\ ~adapter.store_ok) =>
           (~adapter.raised /\ adapter.sources = {})

\* the entries of the index before the call whose metadata names the source
\* the call was made for
MatchedBefore ==
    {e \in adapter.before : DictGet(e.metadata, "source", <<>>) = adapter.source}

\* C14: a delete_by_source(s) during which the index does not fail returns
\* the number of chunks whose source was s before the call, leaves no chunk
\* of s and every chunk of another source as it was; when s had no chunk it
\* returns 0, does not raise and leaves the index as it was.
C14_DeleteFrame ==
    (Called("delete_by_source") /\ adapter.store_ok) =>
        /\ ~adapter.raised
        /\ adapter.count = Cardinality(MatchedBefore)
        /\ collection = adapter.before \ MatchedBefore
        /\ \A e \in collection : DictGet(e.metadata, "source", <<>>) # adapter.source
        /\ MatchedBefore = {} => (adapter.count = 0 /\ collection = adapter.before)

\* C14 witness: a delete removed the two chunks of one source and left the
\* chunk of another in the index.
C14_Witness ==
    /\ Called("delete_by_source")
    /\ ~adapter.raised
    /\ adapter.count = 2
    /\ Cardinality(collection) = 1
    /\ Cardinality(adapter.before) = 3

\* C15: a search of a non-empty index during which neither the embedding
\* nor the index fails does not raise, whatever top_k is; it returns at most
\* min(top_k, count()) results, in order of non-increasing score.
C15_SearchBounded ==
    (Called("search") /\ adapter.before # {} /\ adapter.embed_ok /\ adapter.store_ok) =>
        /\ ~adapter.raised
        /\ Len(adapter.results) <= Min(adapter.top_k, Cardinality(adapter.before))
        /\ \A i, j \in 1..Len(adapter.results) :
               i < j => adapter.results[i].score >= adapter.results[j].score

\* C15 witness: a search asked for more results than the index holds and
\* returned all its chunks, the first with a higher score than the last.
C15_Witness ==
    /\ Called("search")
    /\ ~adapter.raised
    /\ adapter.top_k > Cardinality(adapter.before)
    /\ Len(adapter.results) = Cardinality(adapter.before)
    /\ Len(adapter.results) >= 2
    /\ adapter.results[1].score > adapter.results[Len(adapter.results)].score

\* C16: add_chunks of an empty list returns 0 and search of an empty index
\* returns an empty list; neither calls the embedding model, inserts into
\* the index or queries it, so neither fails when the embedding model would.
C16_NothingToEmbed ==
    /\ (Called("add_chunks") /\ adapter.chunks = <<>>) =>
           /\ ~adapter.raised
           /\ adapter.count = 0
           /\ adapter.calls = <<>>
           /\ collection = adapter.before
    /\ (Called("search") /\ adapter.before = {}) =>
           /\ ~adapter.raised
           /\ adapter.results = <<>>
           /\ "encode" \notin Range(adapter.calls)
           /\ "query" \notin Range(adapter.calls)

\* C16 witness: a search of the empty index has returned nothing while the
\* embedding model was set to fail.
C16_Witness ==
    /\ Called("search")
    /\ adapter.before = {}
    /\ ~adapter.embed_ok
    /\ ~adapter.raised
    /\ adapter.results = <<>>

\* C17, as claimed: every result of search has a score between 0 and 1, for
\* every cosine distance the index can return.
C17_ScoreInUnitInterval ==
    Called("search") =>
        \A i \in 1..Len(adapter.results) :
            /\ adapter.results[i].score >= 0
            /\ adapter.results[i].score <= One

\* C18, as claimed: after add_chunks has inserted a chunk, the metadata the
\* index holds for it has the chunk's source and the chunk's chunk_index,
\* whatever keys the metadata of the chunk has.
C18_ReservedFieldsKept ==
    (Called("add_chunks") /\ ~adapter.raised) =>
        \A i \in 1..Len(adapter.chunks) :
            LET chunk == adapter.chunks[i]
            IN  (\A x \in adapter.before : x.id # DocId(chunk)) =>
                    \E e \in collection :
                        /\ e.id = DocId(chunk)
                        /\ DictGet(e.metadata, "source", <<>>) = chunk.source
                        /\ DictGet(e.metadata, "chunk_index", -1) = chunk.chunk_index

====
